---- MODULE Spec2Model ----
(***************************************************************************)
(* NoFeds chat page (src/page.tsx): the EncryptionManager (identity key,   *)
(* per-room AES-GCM keys, message envelopes), the RealTimeSync store       *)
(* (localStorage record + BroadcastChannel) and the ChatApp component's    *)
(* state, handlers and effects, for several replicas (browser tabs) that   *)
(* share one localStorage record and one broadcast channel name.           *)
(*                                                                         *)
(* One action is one browser task: an event handler (or a resumed async    *)
(* continuation, or a delivered message event) together with the React     *)
(* re-render and the effects that the re-render flushes.                   *)
(*                                                                         *)
(* Scope: the JSX tree (lists, dialogs, avatars, time formatting) is not   *)
(* modelled; of the rendering only getDisplayContent is.  Absent snapshot  *)
(* fields (undefined) are modelled as empty lists / empty maps, which is   *)
(* how every reader in the source treats them (`x || []`, `x?.[k] || []`). *)
(* null is modelled as "" for strings and as <<>> for objects.             *)
(***************************************************************************)
EXTENDS Integers, Sequences, FiniteSets, TLC

(***************************************************************************)
(* Bounds                                                                  *)
(***************************************************************************)
NumReplicas == 3     \* browser tabs
MaxClock == 5        \* last clock reading at which an id is minted
MaxJoinTime == 2     \* last clock reading at which a user joins
MaxKeys == 3         \* crypto.subtle.generateKey calls (room keys)
MaxTasks == 2        \* async continuations pending in one replica
MaxNonces == 2       \* getRandomValues calls (nonces)
MaxPlainLen == 2     \* UTF-16 code units of a plaintext given to the cipher

Replicas == 1..NumReplicas
Names == {"a", "b"}                       \* nicknames typed by users
StatusMessages == {"brb"}                 \* text typed into the settings dialog
HelloText == <<104, 105>>                 \* "hi", the message typed in the UI
\* UTF-16 code units the cipher is exercised on: 'a', e-acute, euro sign,
\* U+FEFF, a high surrogate and a low surrogate
CodeUnits == {97, 233, 8364, 65279, 55357, 56832}

VARIABLES
    now,          \* clock: the value Date.now() returns in the current task
    nextKey,      \* entropy of generateKey: the next fresh key
    nextIv,       \* entropy of getRandomValues: the next fresh 96-bit nonce
    storeRaw,     \* localStorage["nofeds-app-data"]: "absent" | "json" | "corrupt"
    store,        \* the AppData serialized in it (when storeRaw = "json")
    storageUp,    \* FALSE while localStorage.setItem throws
    rep,          \* per replica: RealTimeSync, EncryptionManager and ChatApp state
    inbox,        \* per replica: message events queued on its BroadcastChannel
    pubs,         \* per replica: number of successful channel.postMessage calls
    applied,      \* per replica: number of message events its listeners handled
    writer,       \* the replica whose setItem wrote the current record (0: none)
    cipherIn,     \* harness of the cipher functions: plaintext given
    cipherEnv,    \*   envelope returned by encryptMessage
    cipherOut,    \*   result of decryptMessage
    saveIn,       \* harness of the store: snapshot given to saveData
    loadOut,      \*   result of the loadData that followed
    exported,     \* per replica: the texts its exportPublicKey calls returned
    posted        \* the postMessage calls of the latest task that posted: the
                  \*   snapshot posted and the record its setItem had written

vars == <<now, nextKey, nextIv, storeRaw, store, storageUp, rep, inbox, pubs,
          applied, writer, cipherIn, cipherEnv, cipherOut, saveIn, loadOut, exported,
          posted>>

(***************************************************************************)
(* Sequence helpers (Array.prototype.filter / find / some / map)           *)
(***************************************************************************)
Range(s) == {s[i] : i \in DOMAIN s}

FilterOutNickname(users, nick) == SelectSeq(users, LAMBDA u : u.nickname # nick)
FilterOutId(list, id) == SelectSeq(list, LAMBDA u : u.id # id)
\* accounts?.find(acc => acc.nickname === nickname) || null
FindAccount(accounts, nick) ==
    LET hits == SelectSeq(accounts, LAMBDA a : a.nickname = nick)
    IN IF hits = <<>> THEN <<>> ELSE <<Head(hits)>>

RemoveAt(s, i) == SubSeq(s, 1, i - 1) \o SubSeq(s, i + 1, Len(s))

(***************************************************************************)
(* TextEncoder / TextDecoder (UTF-8)                                       *)
(***************************************************************************)
IsHighSurrogate(c) == c >= 55296 /\ c <= 56319
IsLowSurrogate(c) == c >= 56320 /\ c <= 57343

Utf8Bytes(cp) ==
    IF cp < 128 THEN <<cp>>
    ELSE IF cp < 2048 THEN <<192 + (cp \div 64), 128 + (cp % 64)>>
    ELSE IF cp < 65536
         THEN <<224 + (cp \div 4096), 128 + ((cp \div 64) % 64), 128 + (cp % 64)>>
         ELSE <<240 + (cp \div 262144), 128 + ((cp \div 4096) % 64),
                128 + ((cp \div 64) % 64), 128 + (cp % 64)>>

RECURSIVE TextEncode(_)
\* new TextEncoder().encode(message): a surrogate pair is one code point, a
\* lone surrogate is replaced by U+FFFD
TextEncode(s) ==
    IF s = <<>> THEN <<>>
    ELSE LET c == Head(s) IN
         IF IsHighSurrogate(c) /\ Len(s) >= 2 /\ IsLowSurrogate(s[2])
         THEN Utf8Bytes(65536 + (c - 55296) * 1024 + (s[2] - 56320))
                  \o TextEncode(Tail(Tail(s)))
         ELSE IF IsHighSurrogate(c) \/ IsLowSurrogate(c)
              THEN Utf8Bytes(65533) \o TextEncode(Tail(s))
              ELSE Utf8Bytes(c) \o TextEncode(Tail(s))

RECURSIVE Utf8CodePoints(_)
\* the code points of a UTF-8 byte sequence (malformed bytes give U+FFFD)
Utf8CodePoints(b) ==
    IF b = <<>> THEN <<>>
    ELSE LET b1 == Head(b) IN
         IF b1 < 128 THEN <<b1>> \o Utf8CodePoints(Tail(b))
         ELSE IF b1 >= 192 /\ b1 < 224 /\ Len(b) >= 2
              THEN <<(b1 - 192) * 64 + (b[2] - 128)>>
                       \o Utf8CodePoints(SubSeq(b, 3, Len(b)))
         ELSE IF b1 >= 224 /\ b1 < 240 /\ Len(b) >= 3
              THEN <<(b1 - 224) * 4096 + (b[2] - 128) * 64 + (b[3] - 128)>>
                       \o Utf8CodePoints(SubSeq(b, 4, Len(b)))
         ELSE IF b1 >= 240 /\ Len(b) >= 4
              THEN <<(b1 - 240) * 262144 + (b[2] - 128) * 4096
                       + (b[3] - 128) * 64 + (b[4] - 128)>>
                       \o Utf8CodePoints(SubSeq(b, 5, Len(b)))
         ELSE <<65533>> \o Utf8CodePoints(Tail(b))

RECURSIVE Utf16Units(_)
Utf16Units(cps) ==
    IF cps = <<>> THEN <<>>
    ELSE LET cp == Head(cps) IN
         IF cp >= 65536
         THEN <<55296 + ((cp - 65536) \div 1024), 56320 + ((cp - 65536) % 1024)>>
                  \o Utf16Units(Tail(cps))
         ELSE <<cp>> \o Utf16Units(Tail(cps))

\* new TextDecoder().decode(bytes): ignoreBOM is false by default, so a
\* leading U+FEFF is consumed as a byte order mark
TextDecode(b) ==
    LET cps == Utf8CodePoints(b)
    IN Utf16Units(IF cps # <<>> /\ Head(cps) = 65279 THEN Tail(cps) ELSE cps)

(***************************************************************************)
(* AES-GCM as an ideal AEAD and the base64 text encoding                   *)
(***************************************************************************)
\* crypto.subtle.encrypt({name: "AES-GCM", iv}, key, data): ciphertext and
\* tag, an opaque box that opens only under the same key and nonce
AesGcmEncrypt(key, iv, data) == [key |-> key, iv |-> iv, data |-> data]
\* crypto.subtle.decrypt: rejects (ok = FALSE) when the tag does not verify
AesGcmDecrypt(key, iv, box) ==
    IF box.key = key /\ box.iv = iv
    THEN [ok |-> TRUE, data |-> box.data]
    ELSE [ok |-> FALSE, data |-> <<>>]

\* btoa(String.fromCharCode(...combined)) and its inverse
\* atob(text).split("").map(c => c.charCodeAt(0)): every byte is one Latin-1
\* character, so the text carries the byte sequence unchanged
Btoa(combined) == [b64 |-> combined]
Atob(text) == text.b64

\* combined = iv (12 bytes) followed by ciphertext and tag
Combine(iv, box) == [iv |-> iv, box |-> box]

\* a generator of period 1: the same 12 bytes at every call
GetRandomValuesRepeating == 1 + (nextIv % 1)

\* window.crypto.getRandomValues(new Uint8Array(12)): the next 96 bits of the
\* generator, which repeats none of its outputs (the chance that two of them
\* are equal, 2^-96, is not represented)
GetRandomValues == nextIv

\* EncryptionManager.encryptMessage after the key lookup
EncryptWith(roomKey, iv, message) ==
    Btoa(Combine(iv, AesGcmEncrypt(roomKey, iv, TextEncode(message))))

\* decryptMessage with a cipher that does not authenticate: whatever the key,
\* some text comes out
DecryptWithUnauthenticated(roomKey, encryptedMessage) ==
    [ok |-> TRUE, text |-> TextDecode(Atob(encryptedMessage).box.data)]

\* EncryptionManager.decryptMessage after the key lookup: [ok, text]
DecryptWith(roomKey, encryptedMessage) ==
    LET combined == Atob(encryptedMessage)
        opened == AesGcmDecrypt(roomKey, combined.iv, combined.box)
    IN IF opened.ok THEN [ok |-> TRUE, text |-> TextDecode(opened.data)]
       ELSE [ok |-> FALSE, text |-> <<>>]

(***************************************************************************)
(* AppData and the component state                                         *)
(***************************************************************************)
NoMessages == [x \in {} |-> <<>>]
NoKeys == [x \in {} |-> [by |-> 0, n |-> 0]]
MapPut(m, k, v) == [x \in DOMAIN m \cup {k} |-> IF x = k THEN v ELSE m[x]]

\* { users: [], rooms: [], messages: {}, accounts: [] }
EmptyData == [users |-> <<>>, rooms |-> <<>>, messages |-> NoMessages,
              accounts |-> <<>>]

\* data.messages[roomId] || []
MessagesOf(data, roomId) ==
    IF roomId \in DOMAIN data.messages THEN data.messages[roomId] ELSE <<>>

Plain(words) == [plain |-> words]
Placeholder == Plain(<<"[Encrypted message - decryption failed]">>)

\* the component before its page is opened: the useState initial values, a
\* fresh EncryptionManager and no RealTimeSync yet
NewReplica ==
    [phase |-> "unmounted", channel |-> "none", listeners |-> <<>>,
     nickname |-> "", currentUser |-> "", currentUserId |-> "",
     isJoined |-> FALSE, onlineUsers |-> <<>>, chatRooms |-> <<>>,
     selectedRoom |-> "", messages |-> <<>>, currentAccount |-> <<>>,
     isEncryptionReady |-> FALSE,
     keyPair |-> [by |-> 0, n |-> 0], roomKeys |-> NoKeys, tasks |-> <<>>]

NoKey == [by |-> 0, n |-> 0]
NoTask == [kind |-> "none", room |-> "", roomName |-> "", user |-> "",
           userId |-> "", key |-> NoKey, iv |-> 0, text |-> <<>>,
           hadKey |-> FALSE]

\* A task in progress: s is the component state being built by the setState
\* calls, raw/store the localStorage record, out the snapshots posted on the
\* channel so far, touched the array states set since the last render (React
\* compares them by reference), minted whether Date.now() named an object,
\* wrote whether setItem succeeded, posted what each postMessage call was
\* given and what the setItem before it had written
World(r) == [s |-> rep[r], raw |-> storeRaw, store |-> store, out |-> <<>>,
             touched |-> {}, minted |-> FALSE, wrote |-> FALSE, posted |-> <<>>]

Set(w, field, value) ==
    [w EXCEPT !.s = [@ EXCEPT ![field] = value]]
SetArray(w, field, value) ==
    [w EXCEPT !.s = [@ EXCEPT ![field] = value], !.touched = @ \cup {field}]

(***************************************************************************)
(* RealTimeSync                                                            *)
(***************************************************************************)
\* JSON.stringify followed by JSON.parse.  A Date ([date |-> t]) is written
\* by its toJSON as an ISO string ([iso |-> t]) and parsed as that string; a
\* property whose value is undefined is left out; strings, numbers, booleans,
\* arrays and plain objects come back as they were.
DateFields == {"joinedAt", "lastSeen", "createdAt", "timestamp"}
OptionalFields == {"password", "description"}
Undefined == "undefined"
ToJSON(value) == [iso |-> value.date]
JsonObject(object) ==
    IF DOMAIN object \cap (DateFields \cup OptionalFields) = {} THEN object
    ELSE [f \in {g \in DOMAIN object :
                    g \notin OptionalFields \/ object[g] # Undefined} |->
             IF f \in DateFields THEN ToJSON(object[f]) ELSE object[f]]
JsonArray(array) == [i \in DOMAIN array |-> JsonObject(array[i])]
JsonStringify(data) ==
    [json |-> [users |-> JsonArray(data.users),
               rooms |-> JsonArray(data.rooms),
               messages |-> [roomId \in DOMAIN data.messages |->
                                JsonArray(data.messages[roomId])],
               accounts |-> JsonArray(data.accounts)]]
JsonParse(text) == text.json

\* one channel.postMessage({ type: "data-update", data }) call: data, and in
\* written the record the setItem of the same saveData call stored (none when
\* no setItem came before the call)
Posting(data, written) == [data |-> data, written |-> written]

\* saveData with its two statements exchanged: postMessage, then setItem
SaveDataPostingFirst(w, data) ==
    LET w1 == IF w.s.channel = "open"
              THEN [w EXCEPT !.out = Append(@, data),
                             !.posted = Append(@, Posting(data, <<>>))]
              ELSE w
    IN IF w.s.channel = "closed" \/ ~storageUp THEN w1
       ELSE [w1 EXCEPT !.raw = "json", !.store = JsonParse(JsonStringify(data)),
                       !.wrote = TRUE]

\* saveData without its try/catch: the exception of setItem, or of
\* postMessage on a closed channel, escapes into the caller and takes the
\* component tree down
SaveDataRaising(w, data) ==
    IF ~storageUp THEN [w EXCEPT !.s = [@ EXCEPT !.phase = "crashed"]]
    ELSE IF w.s.channel = "closed"
         THEN [w EXCEPT !.raw = "json", !.store = JsonParse(JsonStringify(data)),
                        !.wrote = TRUE,
                        !.s = [@ EXCEPT !.phase = "crashed"]]
         ELSE [w EXCEPT !.raw = "json", !.store = JsonParse(JsonStringify(data)),
                        !.wrote = TRUE,
                        !.out = IF w.s.channel = "open" THEN Append(@, data) ELSE @]

\* RealTimeSync.saveData: setItem, then postMessage; postMessage on a closed
\* channel throws and setItem may throw: both are caught
SaveData(w, data) ==
    IF ~storageUp THEN w
    ELSE LET written == JsonParse(JsonStringify(data))
         IN [w EXCEPT !.raw = "json", !.store = written, !.wrote = TRUE,
                      !.out = IF w.s.channel = "open" THEN Append(@, data) ELSE @,
                      !.posted = IF w.s.channel = "open"
                                 THEN Append(@, Posting(data, <<written>>))
                                 ELSE @]

\* RealTimeSync.loadData: the parsed record, or null (the empty sequence) when
\* getItem returns nothing or JSON.parse throws
LoadData(w) == IF w.raw = "json" THEN <<w.store>> ELSE <<>>

\* loadData, had it taken every record it finds for a snapshot
LoadedLenient(w) == w.raw # "absent"

\* the caller's test of the loaded value: if (savedData)
Loaded(w) == LoadData(w) # <<>>
\* syncManager.loadData() || { users: [], rooms: [], messages: {}, accounts: [] }
LoadOrEmpty(w) == IF Loaded(w) THEN w.store ELSE EmptyData

\* onUpdate, had it added its listener twice
OnUpdateTwice(w, closure) ==
    IF w.s.channel = "open"
    THEN [w EXCEPT !.s = [@ EXCEPT !.listeners = @ \o <<closure, closure>>]]
    ELSE w

\* RealTimeSync.onUpdate: no listener without a channel; a listener added to
\* a closed channel is never invoked and is not recorded
OnUpdate(w, closure) ==
    IF w.s.channel = "open"
    THEN [w EXCEPT !.s = [@ EXCEPT !.listeners = Append(@, closure)]]
    ELSE w

\* RealTimeSync.close
Close(w) ==
    IF w.s.channel = "open"
    THEN [w EXCEPT !.s = [@ EXCEPT !.channel = "closed", !.listeners = <<>>]]
    ELSE w

(***************************************************************************)
(* ChatApp effects                                                         *)
(***************************************************************************)
\* ApplySnapshot with a per-record merge of the users: the local entries are
\* kept and the unknown ones of the snapshot added
ApplySnapshotMerging(w, data, closure) ==
    LET known == {w.s.onlineUsers[i].id : i \in DOMAIN w.s.onlineUsers}
        merged == w.s.onlineUsers \o SelectSeq(data.users, LAMBDA u : u.id \notin known)
        w1 == SetArray(SetArray(w, "onlineUsers", merged), "chatRooms", data.rooms)
        w2 == IF closure.selectedRoom # ""
              THEN SetArray(w1, "messages", MessagesOf(data, closure.selectedRoom))
              ELSE w1
    IN IF closure.nickname # ""
       THEN Set(w2, "currentAccount", FindAccount(data.accounts, closure.nickname))
       ELSE w2

\* the setState calls shared by the startup load and the onUpdate callback,
\* with the selectedRoom and nickname of the render that created the closure
ApplySnapshot(w, data, closure) ==
    LET w1 == SetArray(SetArray(w, "onlineUsers", data.users),
                       "chatRooms", data.rooms)
        w2 == IF closure.selectedRoom # ""
              THEN SetArray(w1, "messages", MessagesOf(data, closure.selectedRoom))
              ELSE w1
    IN IF closure.nickname # ""
       THEN Set(w2, "currentAccount", FindAccount(data.accounts, closure.nickname))
       ELSE w2

\* body of the startup/subscription effect (deps: selectedRoom, nickname)
StartupEffect(w, cur) ==
    LET closure == [selectedRoom |-> cur.selectedRoom, nickname |-> cur.nickname]
        w1 == IF Loaded(w) THEN ApplySnapshot(w, w.store, closure) ELSE w
    IN OnUpdate(w1, closure)

\* syncData merging the open room's list into the persisted one instead of
\* replacing it
SyncDataMerging(w, cur) ==
    LET currentData == LoadOrEmpty(w)
        stored == MessagesOf(currentData, cur.selectedRoom)
        known == {stored[i].id : i \in DOMAIN stored}
        appData == [users |-> cur.onlineUsers,
                    rooms |-> cur.chatRooms,
                    messages |-> IF cur.selectedRoom # ""
                                 THEN MapPut(currentData.messages, cur.selectedRoom,
                                             stored \o SelectSeq(cur.messages,
                                                         LAMBDA m : m.id \notin known))
                                 ELSE currentData.messages,
                    accounts |-> currentData.accounts]
    IN SaveData(w, appData)

\* syncData, with the state of the render cur
SyncData(w, cur) ==
    LET currentData == LoadOrEmpty(w)
        appData == [users |-> cur.onlineUsers,
                    rooms |-> cur.chatRooms,
                    messages |-> IF cur.selectedRoom # ""
                                 THEN MapPut(currentData.messages,
                                             cur.selectedRoom, cur.messages)
                                 ELSE currentData.messages,
                    accounts |-> currentData.accounts]
    IN SaveData(w, appData)

\* the sync effect without its test of isJoined
SyncEffectAlways(w, cur) == SyncData(w, cur)

\* the sync effect (deps: onlineUsers, chatRooms, messages, isJoined)
SyncEffect(w, cur) == IF cur.isJoined THEN SyncData(w, cur) ELSE w

\* the room-history effect (deps: selectedRoom, currentUser)
RoomHistoryEffect(w, cur) ==
    IF cur.selectedRoom = "" \/ cur.currentUser = "" THEN w
    ELSE LET existingMessages == MessagesOf(LoadOrEmpty(w), cur.selectedRoom)
             systemMessage == [id |-> ToString(now),
                               content |-> Plain(<<cur.currentUser, " joined the room">>),
                               sender |-> "System", senderId |-> "system",
                               type |-> "system", encrypted |-> FALSE]
         IN IF existingMessages = <<>>
            THEN [SetArray(w, "messages", <<systemMessage>>) EXCEPT !.minted = TRUE]
            ELSE SetArray(w, "messages", existingMessages)

RECURSIVE Commit(_, _)
\* React commit after a task: w.s is the state to render, old the state of
\* the previous render.  The effects whose dependencies changed run in
\* declaration order (cleanup first) with the rendered values; what they set
\* is rendered next, until no state is set.
Commit(w, old) ==
    LET cur == w.s
        startupDeps == old.selectedRoom # cur.selectedRoom \/ old.nickname # cur.nickname
        syncDeps == w.touched \cap {"onlineUsers", "chatRooms", "messages"} # {}
                        \/ old.isJoined # cur.isJoined
        historyDeps == old.selectedRoom # cur.selectedRoom
                           \/ old.currentUser # cur.currentUser
        w0 == [w EXCEPT !.touched = {}]
        w1 == IF startupDeps THEN StartupEffect(Close(w0), cur) ELSE w0
        w2 == IF syncDeps THEN SyncEffect(w1, cur) ELSE w1
        w3 == IF historyDeps THEN RoomHistoryEffect(w2, cur) ELSE w2
    IN IF w3.touched = {} THEN w3 ELSE Commit(w3, cur)

\* end of the task of replica r, which consumed the first `consumed` message
\* events of its channel: what it did becomes visible to the other replicas.
\* Events queued for a channel that has been closed are dropped.
Finish(r, w, consumed) ==
    /\ rep' = [rep EXCEPT ![r] = w.s]
    /\ storeRaw' = w.raw
    /\ store' = w.store
    /\ inbox' = [q \in Replicas |->
                    IF q = r
                    THEN (IF w.s.channel = "open"
                          THEN SubSeq(inbox[q], consumed + 1, Len(inbox[q]))
                          ELSE <<>>)
                    ELSE IF rep[q].channel = "open" THEN inbox[q] \o w.out
                         ELSE inbox[q]]
    /\ pubs' = [pubs EXCEPT ![r] = @ + Len(w.out)]
    /\ now' = IF w.minted THEN now + 1 ELSE now
    /\ applied' = [applied EXCEPT ![r] = @ + consumed]
    /\ writer' = IF w.wrote THEN r ELSE writer
    /\ posted' = IF w.out = <<>> THEN posted ELSE w.posted

Mounted(r) == rep[r].phase = "mounted"

(***************************************************************************)
(* Page load and encryption start-up                                       *)
(***************************************************************************)
\* First render of ChatApp: new RealTimeSync() (chanOk: the BroadcastChannel
\* constructor succeeded), new EncryptionManager(), then the effects of the
\* first commit; initEncryption is left waiting for generateKeyPair
Mount(r, chanOk) ==
    /\ rep[r].phase = "unmounted"
    /\ LET s0 == [NewReplica EXCEPT
                     !.phase = "mounted",
                     !.channel = IF chanOk THEN "open" ELSE "none",
                     !.tasks = <<[NoTask EXCEPT !.kind = "init"]>>]
           w0 == [World(r) EXCEPT !.s = s0]
       IN Finish(r, Commit(StartupEffect(w0, s0), s0), 0)
    /\ UNCHANGED <<nextKey, nextIv, storageUp, cipherIn, cipherEnv, cipherOut, saveIn, loadOut, exported>>

\* EncryptionManager.generateKeyPair
\* what crypto.subtle.generateKey returns for the identity of replica r: a
\* pair no earlier call returned
FreshKeyPair(s, r) == [by |-> r, n |-> s.keyPair.n + 1]

\* generateKeyPair without its first line: every call generates and stores
GenerateKeyPairAlways(s, r, ok) ==
    IF ok THEN [s EXCEPT !.keyPair = FreshKeyPair(s, r)] ELSE s

\* EncryptionManager.generateKeyPair awaited to its end: the stored pair if
\* there is one, else the generated pair stored (ok) or the rejection of
\* generateKey, which leaves the manager without a pair
GenerateKeyPair(s, r, ok) ==
    IF s.keyPair # NoKey THEN s
    ELSE IF ok THEN [s EXCEPT !.keyPair = FreshKeyPair(s, r)] ELSE s

\* EncryptionManager.exportPublicKey after the pair is there: the base64 text
\* of the SPKI encoding of the public key
ExportPublicKey(s) == Btoa(<<"spki", s.keyPair>>)

\* initEncryption, had its catch left isEncryptionReady alone
InitEncryptionDoneBlocking(r, i, ok) ==
    /\ Mounted(r)
    /\ i \in DOMAIN rep[r].tasks
    /\ rep[r].tasks[i].kind = "init"
    /\ \E s1 \in {GenerateKeyPair([rep[r] EXCEPT !.tasks = RemoveAt(@, i)], r, ok)} :
       \E w \in {IF ok THEN Set([World(r) EXCEPT !.s = s1], "isEncryptionReady", TRUE)
                         ELSE [World(r) EXCEPT !.s = s1]} :
       \E done \in {Commit(w, rep[r])} : Finish(r, done, 0)
    /\ UNCHANGED <<nextKey, nextIv, storageUp, cipherIn, cipherEnv, cipherOut, saveIn, loadOut, exported>>

\* initEncryption resumes: generateKeyPair resolved (ok) or rejected; both
\* branches set isEncryptionReady.  s1 is the manager after the call, w the
\* task after setIsEncryptionReady, done the committed render
InitEncryptionDone(r, i, ok) ==
    /\ Mounted(r)
    /\ i \in DOMAIN rep[r].tasks
    /\ rep[r].tasks[i].kind = "init"
    /\ \E s1 \in {GenerateKeyPair([rep[r] EXCEPT !.tasks = RemoveAt(@, i)], r, ok)} :
       \E w \in {Set([World(r) EXCEPT !.s = s1], "isEncryptionReady", TRUE)} :
       \E done \in {Commit(w, rep[r])} : Finish(r, done, 0)
    /\ UNCHANGED <<nextKey, nextIv, storageUp, cipherIn, cipherEnv, cipherOut, saveIn, loadOut, exported>>

(***************************************************************************)
(* Joining and leaving                                                     *)
(***************************************************************************)
NewUser(userId, nick, withAccount) ==
    [id |-> userId, nickname |-> nick, status |-> "online",
     statusMessage |-> "Just joined!", hasAccount |-> withAccount]

\* onChange of the nickname input on the join screen
TypeNickname(r, n) ==
    /\ Mounted(r)
    /\ ~rep[r].isJoined
    /\ n # rep[r].nickname
    /\ Finish(r, Commit(Set(World(r), "nickname", n), rep[r]), 0)
    /\ UNCHANGED <<nextKey, nextIv, storageUp, cipherIn, cipherEnv, cipherOut, saveIn, loadOut, exported>>

\* handleJoin, had it appended the new user without dropping the entry that
\* holds the nickname
HandleJoinAppending(w) ==
    LET nick == w.s.nickname
        userId == ToString(now)
        existingUsers == LoadOrEmpty(w).users
        w1 == Set(Set(Set(w, "currentUser", nick), "currentUserId", userId),
                  "isJoined", TRUE)
    IN [SetArray(w1, "onlineUsers", Append(existingUsers, NewUser(userId, nick, FALSE)))
           EXCEPT !.minted = TRUE]

\* handleJoin (guest)
HandleJoin(w) ==
    LET nick == w.s.nickname
        userId == ToString(now)
        existingUsers == LoadOrEmpty(w).users
        updatedUsers == FilterOutNickname(existingUsers, nick)
        w1 == Set(Set(Set(w, "currentUser", nick), "currentUserId", userId),
                  "isJoined", TRUE)
    IN [SetArray(w1, "onlineUsers", Append(updatedUsers, NewUser(userId, nick, FALSE)))
           EXCEPT !.minted = TRUE]

Join(r) ==
    /\ Mounted(r)
    /\ ~rep[r].isJoined
    /\ rep[r].nickname # ""
    /\ Finish(r, Commit(HandleJoin(World(r)), rep[r]), 0)
    /\ UNCHANGED <<nextKey, nextIv, storageUp, cipherIn, cipherEnv, cipherOut, saveIn, loadOut, exported>>

\* {...savedData, field: value}: savedData may be null
SpreadSaved(w) == LoadOrEmpty(w)

\* handleJoinWithAccount.  broadcastUpdate posts a {type: "update"} record
\* that no listener consumes; it is not queued.
HandleJoinWithAccount(w, account) ==
    LET userId == ToString(now)
        savedData == SpreadSaved(w)
        updatedUsers == FilterOutNickname(savedData.users, account.nickname)
        newUsersList == Append(updatedUsers, NewUser(userId, account.nickname, TRUE))
        w1 == Set(Set(Set(w, "currentUser", account.nickname),
                      "currentUserId", userId), "isJoined", TRUE)
        w2 == SetArray(w1, "onlineUsers", newUsersList)
    IN [SaveData(w2, [savedData EXCEPT !.users = newUsersList])
           EXCEPT !.minted = TRUE]

NewAccount(nick, temporary) ==
    [id |-> ToString(now), nickname |-> nick,
     password |-> IF temporary THEN "" ELSE "pw", isTemporary |-> temporary]

NicknameTaken(w, nick) ==
    \E i \in DOMAIN LoadOrEmpty(w).accounts : LoadOrEmpty(w).accounts[i].nickname = nick

\* handleTempAccount, had it stored the account the way handleSignup does
TempAccountSaved(r, n) ==
    /\ Mounted(r)
    /\ ~rep[r].isJoined
    /\ ~NicknameTaken(World(r), n)
    /\ LET tempAccount == NewAccount(n, TRUE)
           savedData == SpreadSaved(World(r))
           w1 == SaveData(World(r),
                          [savedData EXCEPT !.accounts = Append(@, tempAccount)])
           w2 == Set(Set(w1, "currentAccount", <<tempAccount>>), "nickname", n)
       IN Finish(r, Commit(HandleJoinWithAccount(w2, tempAccount), rep[r]), 0)
    /\ UNCHANGED <<nextKey, nextIv, storageUp, cipherIn, cipherEnv, cipherOut, saveIn, loadOut, exported>>

\* handleTempAccount
TempAccount(r, n) ==
    /\ Mounted(r)
    /\ ~rep[r].isJoined
    /\ ~NicknameTaken(World(r), n)
    /\ LET tempAccount == NewAccount(n, TRUE)
           w1 == Set(Set(World(r), "currentAccount", <<tempAccount>>), "nickname", n)
       IN Finish(r, Commit(HandleJoinWithAccount(w1, tempAccount), rep[r]), 0)
    /\ UNCHANGED <<nextKey, nextIv, storageUp, cipherIn, cipherEnv, cipherOut, saveIn, loadOut, exported>>

\* handleSignup
Signup(r, n) ==
    /\ Mounted(r)
    /\ ~rep[r].isJoined
    /\ ~NicknameTaken(World(r), n)
    /\ LET newAccount == NewAccount(n, FALSE)
           savedData == SpreadSaved(World(r))
           w1 == SaveData(World(r),
                          [savedData EXCEPT !.accounts = Append(@, newAccount)])
           w2 == Set(Set(w1, "currentAccount", <<newAccount>>), "nickname", n)
       IN Finish(r, Commit(HandleJoinWithAccount(w2, newAccount), rep[r]), 0)
    /\ UNCHANGED <<nextKey, nextIv, storageUp, cipherIn, cipherEnv, cipherOut, saveIn, loadOut, exported>>

\* handleLogin with the account's password
Login(r, n) ==
    /\ Mounted(r)
    /\ ~rep[r].isJoined
    /\ LET found == SelectSeq(LoadOrEmpty(World(r)).accounts,
                              LAMBDA a : a.nickname = n /\ a.password = "pw")
       IN /\ found # <<>>
          /\ LET account == Head(found)
                 w1 == Set(Set(World(r), "currentAccount", <<account>>), "nickname", n)
             IN Finish(r, Commit(HandleJoinWithAccount(w1, account), rep[r]), 0)
    /\ UNCHANGED <<nextKey, nextIv, storageUp, cipherIn, cipherEnv, cipherOut, saveIn, loadOut, exported>>

MapUsers(users, id, field, value) ==
    [i \in DOMAIN users |->
        IF users[i].id = id THEN [users[i] EXCEPT ![field] = value] ELSE users[i]]

\* handleStatusMessageUpdate, editStatusMessage being the text typed into the
\* settings dialog
StatusMessageUpdate(r, editStatusMessage) ==
    /\ Mounted(r)
    /\ rep[r].isJoined
    /\ LET w == SetArray(World(r), "onlineUsers",
                         MapUsers(rep[r].onlineUsers, rep[r].currentUserId,
                                  "statusMessage", editStatusMessage))
       IN Finish(r, Commit(w, rep[r]), 0)
    /\ UNCHANGED <<nextKey, nextIv, storageUp, cipherIn, cipherEnv, cipherOut, saveIn, loadOut, exported>>

\* handleLogout
Logout(r) ==
    /\ Mounted(r)
    /\ rep[r].isJoined
    /\ LET w1 == SetArray(World(r), "onlineUsers",
                          FilterOutId(rep[r].onlineUsers, rep[r].currentUserId))
           w2 == Set(Set(Set(Set(w1, "isJoined", FALSE), "currentUser", ""),
                         "currentUserId", ""), "selectedRoom", "")
           w3 == Set(Set(SetArray(w2, "messages", <<>>), "currentAccount", <<>>),
                     "nickname", "")
       IN Finish(r, Commit(w3, rep[r]), 0)
    /\ UNCHANGED <<nextKey, nextIv, storageUp, cipherIn, cipherEnv, cipherOut, saveIn, loadOut, exported>>

(***************************************************************************)
(* Rooms                                                                   *)
(***************************************************************************)
PendingJoins == LET n(r) == Len(SelectSeq(rep[r].tasks, LAMBDA t : t.kind = "join"))
                    sum[k \in 0..NumReplicas] == IF k = 0 THEN 0 ELSE sum[k - 1] + n(k)
                IN sum[NumReplicas]

\* every started key generation can still resolve within MaxKeys
KeyBudget == nextKey + PendingJoins <= MaxKeys

\* joinRoom up to its await: setSelectedRoom, the room looked up in the
\* chatRooms of the current render, generateRoomKey started
JoinRoomStart(w, cur, roomId) ==
    LET found == SelectSeq(cur.chatRooms, LAMBDA room : room.id = roomId)
        task == [NoTask EXCEPT
                    !.kind = "join", !.room = roomId,
                    !.roomName = IF found = <<>> THEN "undefined" ELSE Head(found).name,
                    !.user = cur.currentUser,
                    !.hadKey = roomId \in DOMAIN cur.roomKeys]
    IN [Set(w, "selectedRoom", roomId) EXCEPT
           !.s = [@ EXCEPT !.tasks = Append(@, task)]]

\* handleRoomJoin on a room without password (with one, handlePasswordSubmit
\* reaches the same joinRoom)
RoomJoin(r, roomId) ==
    /\ Mounted(r)
    /\ rep[r].isJoined
    /\ \E i \in DOMAIN rep[r].chatRooms : rep[r].chatRooms[i].id = roomId
    /\ Len(rep[r].tasks) < MaxTasks
    /\ KeyBudget
    /\ LET w == Commit(JoinRoomStart(World(r), rep[r], roomId), rep[r])
       IN (w.minted => now <= MaxClock) /\ Finish(r, w, 0)
    /\ UNCHANGED <<nextKey, nextIv, storageUp, cipherIn, cipherEnv, cipherOut, saveIn, loadOut, exported>>

\* handleCreateRoom
CreateRoom(r) ==
    /\ Mounted(r)
    /\ rep[r].isJoined
    /\ Len(rep[r].tasks) < MaxTasks
    /\ KeyBudget
    /\ now <= MaxClock
    /\ LET newRoom == [id |-> ToString(now), name |-> "lobby", userCount |-> 1,
                       hasPassword |-> FALSE, createdBy |-> rep[r].currentUser]
           w1 == SetArray(World(r), "chatRooms", Append(rep[r].chatRooms, newRoom))
           w2 == [JoinRoomStart(w1, rep[r], newRoom.id) EXCEPT !.minted = TRUE]
       IN Finish(r, Commit(w2, rep[r]), 0)
    /\ UNCHANGED <<nextKey, nextIv, storageUp, cipherIn, cipherEnv, cipherOut, saveIn, loadOut, exported>>

\* what crypto.subtle.generateKey returns in replica r: a key no other call
\* returns
FreshKey(r) == [by |-> r, n |-> nextKey]

\* EncryptionManager.generateRoomKey after its await
GenerateRoomKey(s, roomId, roomKey) ==
    [s EXCEPT !.roomKeys = MapPut(@, roomId, roomKey)]

InitialMessages(task) ==
    << [id |-> "system-1",
        content |-> Plain(<<"Welcome to ", task.roomName>>),
        sender |-> "System", senderId |-> "system",
        type |-> "system", encrypted |-> FALSE],
       [id |-> "join-1",
        content |-> Plain(<<task.user, " joined the room">>),
        sender |-> "System", senderId |-> "system",
        type |-> "join", encrypted |-> FALSE] >>

\* joinRoom resumes: generateRoomKey resolved (ok) or rejected and caught,
\* then setMessages(initialMessages)
JoinRoomResume(r, i, ok) ==
    /\ Mounted(r)
    /\ i \in DOMAIN rep[r].tasks
    /\ rep[r].tasks[i].kind = "join"
    /\ LET task == rep[r].tasks[i]
           s1 == [rep[r] EXCEPT !.tasks = RemoveAt(@, i)]
           s2 == IF ok THEN GenerateRoomKey(s1, task.room, FreshKey(r)) ELSE s1
           w == SetArray([World(r) EXCEPT !.s = s2], "messages", InitialMessages(task))
       IN Finish(r, Commit(w, rep[r]), 0)
    /\ nextKey' = IF ok THEN nextKey + 1 ELSE nextKey
    /\ UNCHANGED <<nextIv, storageUp, cipherIn, cipherEnv, cipherOut, saveIn, loadOut, exported>>

\* handleLeaveRoom (defined in the component; no element of the page calls it,
\* so the scenarios below leave it out)
LeaveRoom(r) ==
    /\ Mounted(r)
    /\ rep[r].isJoined
    /\ rep[r].selectedRoom # ""
    /\ LET w == SetArray(Set(World(r), "selectedRoom", ""), "messages", <<>>)
       IN Finish(r, Commit(w, rep[r]), 0)
    /\ UNCHANGED <<nextKey, nextIv, storageUp, cipherIn, cipherEnv, cipherOut, saveIn, loadOut, exported>>

(***************************************************************************)
(* Messages                                                                *)
(***************************************************************************)
\* handleSendMessage up to its await, when encryptMessage finds the room
\* key: the nonce is drawn and crypto.subtle.encrypt started
SendMessage(r, text) ==
    /\ Mounted(r)
    /\ text # <<>>
    /\ rep[r].selectedRoom # ""
    /\ rep[r].isEncryptionReady
    /\ rep[r].selectedRoom \in DOMAIN rep[r].roomKeys
    /\ Len(rep[r].tasks) < MaxTasks
    /\ nextIv <= MaxNonces
    /\ LET task == [NoTask EXCEPT
                       !.kind = "send", !.room = rep[r].selectedRoom,
                       !.user = rep[r].currentUser, !.userId = rep[r].currentUserId,
                       !.key = rep[r].roomKeys[rep[r].selectedRoom],
                       !.iv = GetRandomValues, !.text = text]
           w == [World(r) EXCEPT !.s = [@ EXCEPT !.tasks = Append(@, task)]]
       IN Finish(r, Commit(w, rep[r]), 0)
    /\ nextIv' = nextIv + 1
    /\ UNCHANGED <<nextKey, storageUp, cipherIn, cipherEnv, cipherOut, saveIn, loadOut, exported>>

\* EncryptionManager.encryptMessage up to its first await: the key looked up
\* in the manager's map, "No room key found" thrown (ok = FALSE) without one
EncryptMessage(s, roomId) ==
    IF roomId \in DOMAIN s.roomKeys
    THEN [ok |-> TRUE, key |-> s.roomKeys[roomId]]
    ELSE [ok |-> FALSE, key |-> NoKey]

\* handleSendMessage, had its catch posted the text unencrypted
SendNoKeyPosting(r, text) ==
    /\ Mounted(r)
    /\ text # <<>>
    /\ rep[r].selectedRoom # ""
    /\ rep[r].isEncryptionReady
    /\ ~EncryptMessage(rep[r], rep[r].selectedRoom).ok
    /\ now <= MaxClock
    /\ LET newMessage == [id |-> ToString(now), content |-> Btoa(text),
                          sender |-> rep[r].currentUser,
                          senderId |-> rep[r].currentUserId,
                          type |-> "user", encrypted |-> FALSE]
           w == [SetArray(World(r), "messages", Append(rep[r].messages, newMessage))
                    EXCEPT !.minted = TRUE]
       IN Finish(r, Commit(w, rep[r]), 0)
    /\ cipherIn' = [by |-> r, room |-> rep[r].selectedRoom, text |-> text,
                    ok |-> FALSE, key |-> NoKey]
    /\ UNCHANGED <<nextKey, nextIv, storageUp, cipherEnv, cipherOut, saveIn, loadOut, exported>>

\* handleSendMessage when encryptMessage throws "No room key found": the
\* catch logs, no state is set.  cipherIn keeps the rejected call.
SendNoKey(r, text) ==
    /\ Mounted(r)
    /\ text # <<>>
    /\ rep[r].selectedRoom # ""
    /\ rep[r].isEncryptionReady
    /\ ~EncryptMessage(rep[r], rep[r].selectedRoom).ok
    /\ Finish(r, Commit(World(r), rep[r]), 0)
    /\ cipherIn' = [by |-> r, room |-> rep[r].selectedRoom, text |-> text,
                    ok |-> FALSE, key |-> NoKey]
    /\ UNCHANGED <<nextKey, nextIv, storageUp, cipherEnv, cipherOut, saveIn, loadOut, exported>>

\* handleSendMessage, had it posted the typed text when encrypt rejects
SendResumePlain(r, i, ok) ==
    /\ Mounted(r)
    /\ i \in DOMAIN rep[r].tasks
    /\ rep[r].tasks[i].kind = "send"
    /\ now <= MaxClock
    /\ LET task == rep[r].tasks[i]
           s1 == [rep[r] EXCEPT !.tasks = RemoveAt(@, i)]
           w1 == [World(r) EXCEPT !.s = s1]
           newMessage == [id |-> ToString(now),
                          content |-> IF ok THEN EncryptWith(task.key, task.iv, task.text)
                                      ELSE Plain(task.text),
                          sender |-> task.user, senderId |-> task.userId,
                          type |-> "user", encrypted |-> ok]
           w2 == [SetArray(w1, "messages", Append(s1.messages, newMessage))
                     EXCEPT !.minted = TRUE]
       IN Finish(r, Commit(w2, rep[r]), 0)
    /\ UNCHANGED <<nextKey, nextIv, storageUp, cipherIn, cipherEnv, cipherOut, saveIn, loadOut, exported>>

\* handleSendMessage resumes: crypto.subtle.encrypt resolved (ok) or rejected
SendResume(r, i, ok) ==
    /\ Mounted(r)
    /\ i \in DOMAIN rep[r].tasks
    /\ rep[r].tasks[i].kind = "send"
    /\ now <= MaxClock
    /\ LET task == rep[r].tasks[i]
           s1 == [rep[r] EXCEPT !.tasks = RemoveAt(@, i)]
           w1 == [World(r) EXCEPT !.s = s1]
           newMessage == [id |-> ToString(now),
                          content |-> EncryptWith(task.key, task.iv, task.text),
                          sender |-> task.user, senderId |-> task.userId,
                          type |-> "user", encrypted |-> TRUE]
           w2 == IF ok
                 THEN [SetArray(w1, "messages", Append(s1.messages, newMessage))
                          EXCEPT !.minted = TRUE]
                 ELSE w1
       IN Finish(r, Commit(w2, rep[r]), 0)
    /\ UNCHANGED <<nextKey, nextIv, storageUp, cipherIn, cipherEnv, cipherOut, saveIn, loadOut, exported>>

\* getDisplayContent, had its catch handed back the stored content
DisplayContentRaw(s, message) ==
    IF ~message.encrypted \/ s.selectedRoom = ""
    THEN [shown |-> "content", text |-> message.content]
    ELSE IF s.selectedRoom \notin DOMAIN s.roomKeys
         THEN [shown |-> "content", text |-> message.content]
         ELSE LET opened == DecryptWith(s.roomKeys[s.selectedRoom], message.content)
              IN IF opened.ok THEN [shown |-> "decrypted", text |-> opened.text]
                 ELSE [shown |-> "content", text |-> message.content]

\* getDisplayContent, as shown by EncryptedMessageContent: one call of
\* decryptMessage, whose throw ("No room key found" or the rejection of
\* crypto.subtle.decrypt) is caught and answered with the placeholder
DisplayContent(s, message) ==
    IF ~message.encrypted \/ s.selectedRoom = ""
    THEN [shown |-> "content", text |-> message.content]
    ELSE IF s.selectedRoom \notin DOMAIN s.roomKeys
         THEN [shown |-> "placeholder", text |-> Placeholder]
         ELSE LET opened == DecryptWith(s.roomKeys[s.selectedRoom], message.content)
              IN IF opened.ok THEN [shown |-> "decrypted", text |-> opened.text]
                 ELSE [shown |-> "placeholder", text |-> Placeholder]

(***************************************************************************)
(* Broadcast delivery and page unload                                      *)
(***************************************************************************)
RECURSIVE RunListeners(_, _, _)
RunListeners(w, listeners, data) ==
    IF listeners = <<>> THEN w
    ELSE RunListeners(ApplySnapshot(w, data, Head(listeners)), Tail(listeners), data)

\* a "message" event of the BroadcastChannel is dispatched to the listeners
\* added by onUpdate
Deliver(r) ==
    /\ Mounted(r)
    /\ rep[r].channel = "open"
    /\ inbox[r] # <<>>
    /\ \E w \in {RunListeners(World(r), rep[r].listeners, Head(inbox[r]))} :
       \E done \in {Commit(w, rep[r])} : Finish(r, done, 1)
    /\ UNCHANGED <<nextKey, nextIv, storageUp, cipherIn, cipherEnv, cipherOut, saveIn, loadOut, exported>>

\* handleBeforeUnload
HandleBeforeUnload(w) ==
    LET s == w.s IN
    IF s.currentAccount # <<>> /\ s.currentAccount[1].isTemporary
    THEN LET w1 == IF Loaded(w)
                   THEN SaveData(w, [w.store EXCEPT
                                        !.accounts = FilterOutId(@, s.currentAccount[1].id)])
                   ELSE w
             updatedUsers == FilterOutId(s.onlineUsers, s.currentUserId)
         IN SaveData(w1, [LoadOrEmpty(w1) EXCEPT !.users = updatedUsers])
    ELSE w

\* the tab is closed or reloaded: beforeunload, then the page is gone
Unload(r) ==
    /\ Mounted(r)
    /\ LET w == HandleBeforeUnload(World(r))
           gone == [w EXCEPT !.s = [@ EXCEPT !.phase = "unloaded", !.channel = "closed",
                                               !.listeners = <<>>, !.tasks = <<>>]]
       IN Finish(r, gone, 0)
    /\ UNCHANGED <<nextKey, nextIv, storageUp, cipherIn, cipherEnv, cipherOut, saveIn, loadOut, exported>>

(***************************************************************************)
(* Specification                                                           *)
(***************************************************************************)
NoCipher == [by |-> 0, room |-> "", text |-> <<>>, ok |-> FALSE, key |-> NoKey]
NoEnvelope == Btoa(Combine(0, AesGcmEncrypt(NoKey, 0, <<>>)))
NoLoad == [done |-> FALSE, result |-> <<>>]

Init ==
    /\ now = 1
    /\ nextKey = 1
    /\ nextIv = 1
    /\ storeRaw = "absent"
    /\ store = EmptyData
    /\ storageUp = TRUE
    /\ rep = [r \in Replicas |-> NewReplica]
    /\ inbox = [r \in Replicas |-> <<>>]
    /\ pubs = [r \in Replicas |-> 0]
    /\ applied = [r \in Replicas |-> 0]
    /\ writer = 0
    /\ cipherIn = NoCipher
    /\ cipherEnv = NoEnvelope
    /\ cipherOut = NoCipher
    /\ saveIn = <<>>
    /\ loadOut = NoLoad
    /\ exported = [r \in Replicas |-> <<>>]
    /\ posted = <<>>

\* the clock readings at which the users of the model still join
JoinOpen == now <= MaxJoinTime

Next ==
    \E r \in Replicas :
        \/ \E chanOk \in BOOLEAN : Mount(r, chanOk)
        \/ \E i \in 1..MaxTasks, ok \in BOOLEAN : InitEncryptionDone(r, i, ok)
        \/ \E n \in Names : TypeNickname(r, n)
        \/ JoinOpen /\ Join(r)
        \/ JoinOpen /\ \E n \in Names : TempAccount(r, n)
        \/ JoinOpen /\ \E n \in Names : Signup(r, n)
        \/ JoinOpen /\ \E n \in Names : Login(r, n)
        \/ \E text \in StatusMessages : StatusMessageUpdate(r, text)
        \/ Logout(r)
        \/ CreateRoom(r)
        \/ \E i \in 1..MaxClock : RoomJoin(r, ToString(i))
        \/ \E i \in 1..MaxTasks, ok \in BOOLEAN : JoinRoomResume(r, i, ok)
        \/ LeaveRoom(r)
        \/ SendMessage(r, HelloText)
        \/ SendNoKey(r, HelloText)
        \/ \E i \in 1..MaxTasks, ok \in BOOLEAN : SendResume(r, i, ok)
        \/ Deliver(r)
        \/ Unload(r)

(***************************************************************************)
(* The EncryptionManager called directly: generateRoomKey, encryptMessage  *)
(* and decryptMessage awaited one after the other on the managers of the   *)
(* replicas, for plaintexts over CodeUnits                                 *)
(***************************************************************************)
RECURSIVE StringsUpTo(_)
StringsUpTo(n) ==
    IF n = 0 THEN {<<>>}
    ELSE LET shorter == StringsUpTo(n - 1)
         IN shorter \cup {Append(t, c) : t \in shorter, c \in CodeUnits}

Plaintexts == StringsUpTo(MaxPlainLen)
CipherRooms == {"room-42"}

\* await encryptionManager.generateRoomKey(roomId)
CallGenerateRoomKey(r, roomId) ==
    /\ nextKey <= MaxKeys
    /\ rep' = [rep EXCEPT ![r] = GenerateRoomKey(@, roomId, FreshKey(r))]
    /\ nextKey' = nextKey + 1
    /\ UNCHANGED <<now, nextIv, storeRaw, store, storageUp, inbox, pubs, applied,
                   writer, cipherIn, cipherEnv, cipherOut, saveIn, loadOut, exported, posted>>

\* await encryptionManager.encryptMessage(message, roomId) with a room key
CallEncryptMessage(r, message, roomId) ==
    /\ roomId \in DOMAIN rep[r].roomKeys
    /\ nextIv <= MaxNonces
    /\ cipherIn' = [by |-> r, room |-> roomId, text |-> message, ok |-> TRUE,
                    key |-> rep[r].roomKeys[roomId]]
    /\ cipherEnv' = EncryptWith(rep[r].roomKeys[roomId], GetRandomValues, message)
    /\ cipherOut' = NoCipher
    /\ nextIv' = nextIv + 1
    /\ UNCHANGED <<now, nextKey, storeRaw, store, storageUp, rep, inbox, pubs,
                   applied, writer, saveIn, loadOut, exported, posted>>

\* await encryptionManager.decryptMessage(envelope, roomId): ok = FALSE when
\* it throws ("No room key found" or the rejection of crypto.subtle.decrypt)
CallDecryptMessage(r, roomId) ==
    /\ cipherIn.ok
    /\ cipherOut' =
          IF roomId \notin DOMAIN rep[r].roomKeys
          THEN [by |-> r, room |-> roomId, text |-> <<>>, ok |-> FALSE, key |-> NoKey]
          ELSE LET opened == DecryptWith(rep[r].roomKeys[roomId], cipherEnv)
               IN [by |-> r, room |-> roomId, text |-> opened.text,
                   ok |-> opened.ok, key |-> rep[r].roomKeys[roomId]]
    /\ UNCHANGED <<now, nextKey, nextIv, storeRaw, store, storageUp, rep, inbox,
                   pubs, applied, writer, cipherIn, cipherEnv, saveIn, loadOut, exported, posted>>

\* no generateKeyPair call of replica r is waiting for generateKey
NoInitPending(r) == \A i \in DOMAIN rep[r].tasks : rep[r].tasks[i].kind # "init"

\* await encryptionManager.generateKeyPair()
CallGenerateKeyPair(r, ok) ==
    /\ Mounted(r)
    /\ NoInitPending(r)
    /\ rep[r].keyPair.n < MaxKeys
    /\ rep' = [rep EXCEPT ![r] = GenerateKeyPair(@, r, ok)]
    /\ UNCHANGED <<now, nextKey, nextIv, storeRaw, store, storageUp, inbox, pubs,
                   applied, writer, cipherIn, cipherEnv, cipherOut, saveIn, loadOut,
                   exported, posted>>

\* await encryptionManager.exportPublicKey(): it rejects, returning no text,
\* when the generateKeyPair it had to call rejects
CallExportPublicKey(r, ok) ==
    /\ Mounted(r)
    /\ NoInitPending(r)
    /\ rep[r].keyPair.n < MaxKeys
    /\ Len(exported[r]) < MaxTasks
    /\ LET s1 == IF rep[r].keyPair = NoKey THEN GenerateKeyPair(rep[r], r, ok)
                 ELSE rep[r]
       IN /\ rep' = [rep EXCEPT ![r] = s1]
          /\ exported' = IF s1.keyPair = NoKey THEN exported
                         ELSE [exported EXCEPT ![r] = Append(@, ExportPublicKey(s1))]
    /\ UNCHANGED <<now, nextKey, nextIv, storeRaw, store, storageUp, inbox, pubs,
                   applied, writer, cipherIn, cipherEnv, cipherOut, saveIn, loadOut, posted>>

\* the identity-key scenario: pages load and initialize encryption, and the
\* two key-pair functions are called on the managers, one call after the
\* other
NextKeys ==
    \E r \in Replicas :
        \/ Mount(r, TRUE)
        \/ \E i \in 1..MaxTasks, ok \in BOOLEAN : InitEncryptionDone(r, i, ok)
        \/ \E ok \in BOOLEAN : CallGenerateKeyPair(r, ok)
        \/ \E ok \in BOOLEAN : CallExportPublicKey(r, ok)

SpecKeys == Init /\ [][NextKeys]_vars

NextCipher ==
    \E r \in Replicas, roomId \in CipherRooms :
        \/ CallGenerateRoomKey(r, roomId)
        \/ \E message \in Plaintexts : CallEncryptMessage(r, message, roomId)
        \/ CallDecryptMessage(r, roomId)

SpecCipher == Init /\ [][NextCipher]_vars

(***************************************************************************)
(* The RealTimeSync store called directly: saveData with a snapshot that   *)
(* carries every field the page writes (the Date fields and the optional   *)
(* room fields included), then loadData                                    *)
(***************************************************************************)
FullUser(nick, t) ==
    NewUser(ToString(t), nick, TRUE) @@ [joinedAt |-> [date |-> t]]
FullRoom(description) ==
    [id |-> "2", name |-> "lobby", userCount |-> 1, hasPassword |-> FALSE,
     password |-> Undefined, description |-> description, createdBy |-> "a"]
FullMessage(text, t) ==
    [id |-> ToString(t), content |-> EncryptWith([by |-> 1, n |-> 1], 1, text),
     sender |-> "a", senderId |-> "1", timestamp |-> [date |-> t],
     type |-> "user", encrypted |-> TRUE]
FullAccount(nick, t) ==
    NewAccount(nick, TRUE) @@ [createdAt |-> [date |-> t]]

\* snapshots with one user, one room, one encrypted message and one
\* temporary account
Snapshots ==
    {[users |-> <<FullUser(nick, t)>>,
      rooms |-> <<FullRoom(description)>>,
      messages |-> ("2" :> <<FullMessage(text, sent)>>),
      accounts |-> <<FullAccount(nick, t)>>] :
        nick \in Names, t \in 1..MaxJoinTime, description \in {Undefined, "about"},
        text \in {HelloText, <<97>>}, sent \in 1..MaxNonces}

\* syncManager.saveData(S) on the RealTimeSync of replica r
CallSaveData(r, S) ==
    /\ Finish(r, SaveData(World(r), S), 0)
    /\ saveIn' = <<S>>
    /\ loadOut' = NoLoad
    /\ UNCHANGED <<nextKey, nextIv, storageUp, cipherIn, cipherEnv, cipherOut,
                   exported>>

\* syncManager.loadData() on the RealTimeSync of replica r
CallLoadData(r) ==
    /\ saveIn # <<>>
    /\ loadOut' = [done |-> TRUE, result |-> LoadData(World(r))]
    /\ UNCHANGED <<now, nextKey, nextIv, storeRaw, store, storageUp, rep, inbox,
                   pubs, applied, writer, cipherIn, cipherEnv, cipherOut, saveIn,
                   exported, posted>>

NextStore ==
    \E r \in Replicas :
        \/ \E S \in Snapshots : CallSaveData(r, S)
        \/ CallLoadData(r)

SpecStore == Init /\ [][NextStore]_vars

\* localStorage.setItem starts to throw (quota exceeded, storage disabled)
StorageFails ==
    /\ storageUp
    /\ storageUp' = FALSE
    /\ UNCHANGED <<now, nextKey, nextIv, storeRaw, store, rep, inbox, pubs,
                   applied, writer, cipherIn, cipherEnv, cipherOut, saveIn, loadOut, exported, posted>>

\* localStorage.setItem works again
StorageRecovers ==
    /\ ~storageUp
    /\ storageUp' = TRUE
    /\ UNCHANGED <<now, nextKey, nextIv, storeRaw, store, rep, inbox, pubs,
                   applied, writer, cipherIn, cipherEnv, cipherOut, saveIn, loadOut, exported, posted>>

\* something other than the page leaves a record that JSON.parse rejects
StorageCorrupted ==
    /\ storeRaw # "corrupt"
    /\ storeRaw' = "corrupt"
    /\ UNCHANGED <<now, nextKey, nextIv, store, storageUp, rep, inbox, pubs,
                   applied, writer, cipherIn, cipherEnv, cipherOut, saveIn, loadOut, exported, posted>>

\* every task of every replica, and the faults of the environment
NextAll == Next \/ StorageFails \/ StorageRecovers \/ StorageCorrupted

Spec == Init /\ [][NextAll]_vars

\* Sign-ups and logins, the only tasks that publish, and the delivery of
\* what they publish
NextBroadcast ==
    \E r \in Replicas :
        \/ Mount(r, TRUE)
        \/ JoinOpen /\ \E n \in Names : Signup(r, n)
        \/ JoinOpen /\ \E n \in Names : Login(r, n)
        \/ Deliver(r)

SpecBroadcast == Init /\ [][NextBroadcast]_vars

\* The same with logouts and with presence changes, whose saves come from
\* syncData
NextSync ==
    \/ NextBroadcast
    \/ \E r \in Replicas : Logout(r)
    \/ \E r \in Replicas, text \in StatusMessages : StatusMessageUpdate(r, text)

SpecSync == Init /\ [][NextSync]_vars

(***************************************************************************)
(* Two users and a room they can both open.  A room created through the    *)
(* UI stays in the room list only when the record was still absent at that *)
(* moment, so the first state is reached in Spec by: StorageFails,         *)
(* Mount(1), InitEncryptionDone(1), Signup(1, "a") (not persisted),        *)
(* StorageRecovers, CreateRoom(1), JoinRoomResume(1), Mount(2),            *)
(* InitEncryptionDone(2), Signup(2, "b").  The second state follows it by  *)
(* RoomJoin(2, "2"), JoinRoomResume(2), Logout(2), Login(2, "b"): user b   *)
(* is back outside the room and the manager of its tab still holds the key *)
(* of its first visit.                                                     *)
(***************************************************************************)
SharedRoom == [id |-> "2", name |-> "lobby", userCount |-> 1,
               hasPassword |-> FALSE, createdBy |-> "a"]
SharedGreeting == InitialMessages([NoTask EXCEPT !.roomName = "undefined", !.user = "a"])
ReturnGreeting == InitialMessages([NoTask EXCEPT !.roomName = SharedRoom.name, !.user = "b"])
AccountA == [id |-> "1", nickname |-> "a", password |-> "pw", isTemporary |-> FALSE]
AccountB == [id |-> "3", nickname |-> "b", password |-> "pw", isTemporary |-> FALSE]

\* the users a and b, b under the id of its latest join
SharedUsers(idB) == <<NewUser("1", "a", TRUE), NewUser(idB, "b", TRUE)>>

SharedReplica(r, idB) ==
    LET loaded == [NewReplica EXCEPT !.phase = "mounted", !.channel = "closed",
                                     !.isEncryptionReady = TRUE,
                                     !.keyPair = [by |-> r, n |-> 1],
                                     !.isJoined = TRUE, !.chatRooms = <<SharedRoom>>]
    IN IF r = 1
       THEN [loaded EXCEPT !.nickname = "a", !.currentUser = "a", !.currentUserId = "1",
                           !.onlineUsers = <<NewUser("1", "a", TRUE)>>,
                           !.selectedRoom = SharedRoom.id,
                           !.messages = SharedGreeting,
                           !.currentAccount = <<AccountA>>,
                           !.roomKeys = MapPut(NoKeys, SharedRoom.id, [by |-> 1, n |-> 1])]
       ELSE IF r = 2
       THEN [loaded EXCEPT !.nickname = "b", !.currentUser = "b", !.currentUserId = idB,
                           !.onlineUsers = SharedUsers(idB),
                           !.currentAccount = <<AccountB>>]
       ELSE NewReplica

SharedStore(idB, greeting) ==
    [users |-> SharedUsers(idB),
     rooms |-> <<SharedRoom>>,
     messages |-> MapPut(NoMessages, SharedRoom.id, greeting),
     accounts |-> <<AccountB>>]

\* the two postMessage calls of Signup(2, "b"), the latest task that posted:
\* handleSignup saves the account, handleJoinWithAccount the user
SharedPosted ==
    LET withAccount == [SharedStore("3", SharedGreeting) EXCEPT
                           !.users = <<NewUser("1", "a", TRUE)>>]
        withUser == SharedStore("3", SharedGreeting)
    IN <<Posting(withAccount, <<withAccount>>), Posting(withUser, <<withUser>>)>>

\* user b has not been in the room yet
SharedStart ==
    /\ now = 4
    /\ nextKey = 2
    /\ store = SharedStore("3", SharedGreeting)
    /\ rep = [r \in Replicas |-> SharedReplica(r, "3")]

\* user b has been in the room, has logged out and has logged in again
SharedReturn ==
    /\ now = 5
    /\ nextKey = 3
    /\ store = SharedStore("4", ReturnGreeting)
    /\ rep = [r \in Replicas |->
                 IF r = 2
                 THEN [SharedReplica(r, "4") EXCEPT
                          !.roomKeys = MapPut(NoKeys, SharedRoom.id, [by |-> 2, n |-> 2])]
                 ELSE SharedReplica(r, "4")]

InitShared ==
    /\ SharedStart \/ SharedReturn
    /\ nextIv = 1
    /\ storeRaw = "json"
    /\ storageUp = TRUE
    /\ inbox = [r \in Replicas |-> <<>>]
    /\ pubs = [r \in Replicas |-> IF r = 2 THEN 2 ELSE 0]
    /\ applied = [r \in Replicas |-> 0]
    /\ writer = 2
    /\ cipherIn = NoCipher
    /\ cipherEnv = NoEnvelope
    /\ cipherOut = NoCipher
    /\ saveIn = <<>>
    /\ loadOut = NoLoad
    /\ exported = [r \in Replicas |-> <<>>]
    /\ posted = SharedPosted

NextShared ==
    \E r \in Replicas :
        \/ \E i \in 1..MaxClock : RoomJoin(r, ToString(i))
        \/ \E i \in 1..MaxTasks : JoinRoomResume(r, i, TRUE)
        \/ SendMessage(r, HelloText)
        \/ \E i \in 1..MaxTasks : SendResume(r, i, TRUE)

SpecShared == InitShared /\ [][NextShared]_vars

\* the account scenario: tabs open, start temporary sessions or register
\* the nickname "a", hear of each other's saves and are closed again
NextTemp ==
    \E r \in Replicas :
        \/ Mount(r, TRUE)
        \/ JoinOpen /\ \E n \in Names : TempAccount(r, n)
        \/ JoinOpen /\ Signup(r, "a")
        \/ Deliver(r)
        \/ Unload(r)

SpecTemp == Init /\ [][NextTemp]_vars

\* the user-list scenario: tabs join under the one nickname "a", as guests
\* or by registering it, change their status message and hear of each
\* other's saves
NextUsers ==
    \E r \in Replicas :
        \/ Mount(r, TRUE)
        \/ TypeNickname(r, "a")
        \/ JoinOpen /\ Join(r)
        \/ JoinOpen /\ Signup(r, "a")
        \/ \E text \in StatusMessages : StatusMessageUpdate(r, text)
        \/ Deliver(r)

SpecUsers == Init /\ [][NextUsers]_vars

\* the sending scenario: in the shared room's setting tabs open rooms, the
\* key generation resolves or is rejected, and messages are sent before and
\* after it
NextSend ==
    \E r \in Replicas :
        \/ \E i \in 1..MaxClock : RoomJoin(r, ToString(i))
        \/ \E i \in 1..MaxTasks, ok \in BOOLEAN : JoinRoomResume(r, i, ok)
        \/ SendMessage(r, HelloText)
        \/ SendNoKey(r, HelloText)
        \/ \E i \in 1..MaxTasks : SendResume(r, i, TRUE)

SpecSend == InitShared /\ [][NextSend]_vars

\* the fault scenario: tabs open with or without a BroadcastChannel and
\* register the nickname "a" while localStorage.setItem fails and recovers
\* and the record is damaged from outside
NextFaults ==
    \/ \E r \in Replicas :
           \/ \E chanOk \in BOOLEAN : Mount(r, chanOk)
           \/ JoinOpen /\ Signup(r, "a")
           \/ Deliver(r)
    \/ StorageFails
    \/ StorageRecovers
    \/ StorageCorrupted

SpecFaults == Init /\ [][NextFaults]_vars

(***************************************************************************)
(* Properties                                                              *)
(***************************************************************************)
Joined(r) == Mounted(r) /\ rep[r].isJoined
EncryptedBy(message) == Atob(message.content).box.key.by
Saved(r) == writer' = r /\ <<store, writer>>' # <<store, writer>>

\* nothing is in flight: no message event queued, no joinRoom or
\* handleSendMessage waiting to resume
Quiet ==
    \A r \in Replicas :
        /\ inbox[r] = <<>>
        /\ \A i \in DOMAIN rep[r].tasks : rep[r].tasks[i].kind = "init"

\* C1: once nothing is in flight, every live joined replica shows the user
\* list and the room list of the durable snapshot, and the snapshot's message
\* list of its open room
C1_JoinedReplicasConverge ==
    Quiet =>
        \A r \in Replicas :
            Joined(r) =>
                /\ rep[r].onlineUsers = store.users
                /\ rep[r].chatRooms = store.rooms
                /\ rep[r].selectedRoom # "" =>
                       rep[r].messages = MessagesOf(store, rep[r].selectedRoom)

\* C2: whenever a replica publishes, every other live replica that has
\* registered its subscription gets each published snapshot queued for its
\* callback
C2_SubscriberGetsEveryPublication ==
    [][\A p, r \in Replicas :
          (p # r /\ pubs'[p] > pubs[p] /\ Mounted(r) /\ rep'[r].phase = "mounted")
              => Len(inbox'[r]) = Len(inbox[r]) + (pubs'[p] - pubs[p])]_vars

\* C3: the task in which a replica joins leaves its user in the persisted
\* user list, and the task in which it logs out leaves the persisted user
\* list without the departing user
C3_MutationIsPersisted ==
    [][\A r \in Replicas :
          /\ (Mounted(r) /\ ~rep[r].isJoined /\ rep'[r].isJoined)
                 => \E i \in DOMAIN store'.users :
                        store'.users[i].id = rep'[r].currentUserId
          /\ (Joined(r) /\ ~rep'[r].isJoined /\ rep'[r].phase = "mounted")
                 => \A i \in DOMAIN store'.users :
                        store'.users[i].id # rep[r].currentUserId]_vars

\* C4: a save by a joined replica that changed its own user entry keeps the
\* other users, the rooms, the accounts and the other rooms' message lists of
\* the durable snapshot
C4_SaveKeepsTheRest ==
    [][\A r \in Replicas :
          (Saved(r) /\ rep[r].isJoined /\ rep'[r].isJoined
                    /\ rep'[r].selectedRoom = rep[r].selectedRoom)
              => /\ \A i \in DOMAIN store.users :
                        store.users[i].id # rep[r].currentUserId
                            => store.users[i] \in Range(store'.users)
                 /\ store'.rooms = store.rooms
                 /\ store'.accounts = store.accounts
                 /\ \A room \in DOMAIN store.messages :
                        room # rep[r].selectedRoom
                            => MessagesOf(store', room) = store.messages[room]]_vars

C6_LastSaveWins ==
    [][\A r \in Replicas :
          (Saved(r) /\ rep'[r].isJoined /\ rep'[r].selectedRoom # "")
              => MessagesOf(store', rep'[r].selectedRoom) = rep'[r].messages]_vars

UserMessages(list) == {m \in Range(list) : m.type = "user"}

\* replica q appended on a stale base: its message is persisted and the
\* message that replica r had persisted for the same room is lost
C6_Witness ==
    \E r, q \in Replicas :
        /\ r # q
        /\ writer = q
        /\ rep[r].selectedRoom # ""
        /\ rep[q].selectedRoom = rep[r].selectedRoom
        /\ \E m \in UserMessages(rep[r].messages) : m.senderId = rep[r].currentUserId
        /\ \E m \in UserMessages(MessagesOf(store, rep[q].selectedRoom)) :
               m.senderId = rep[q].currentUserId
        /\ UserMessages(MessagesOf(store, rep[q].selectedRoom))
               \cap UserMessages(rep[r].messages) = {}

StartedWithoutKey(r, roomId) ==
    {i \in DOMAIN rep[r].tasks :
        rep[r].tasks[i].kind = "join" /\ rep[r].tasks[i].room = roomId
            /\ ~rep[r].tasks[i].hadKey}
StartedWithKey(r, roomId) ==
    {i \in DOMAIN rep[r].tasks :
        rep[r].tasks[i].kind = "join" /\ rep[r].tasks[i].room = roomId
            /\ rep[r].tasks[i].hadKey}

\* C7: a stored room key is not changed by a key establishment that started
\* after it was stored
C7_StoredKeyIsKept ==
    [][\A r \in Replicas : \A roomId \in DOMAIN rep[r].roomKeys :
          StartedWithoutKey(r, roomId) = {}
              => /\ roomId \in DOMAIN rep'[r].roomKeys
                 /\ rep'[r].roomKeys[roomId] = rep[r].roomKeys[roomId]]_vars

\* C8: of the key establishments that overlap for one room, only the first
\* to resolve stores a key: once set, the key is not changed by another one
\* that had started before it was set
C8_OneGenerationPerRoom ==
    [][\A r \in Replicas : \A roomId \in DOMAIN rep[r].roomKeys :
          StartedWithKey(r, roomId) = {}
              => /\ roomId \in DOMAIN rep'[r].roomKeys
                 /\ rep'[r].roomKeys[roomId] = rep[r].roomKeys[roomId]]_vars

\* C9: decryptMessage of what encryptMessage returned, by the same manager
\* for the same room under the key that encrypted, returns the plaintext
C9_RoundTrip ==
    (/\ cipherOut.by # 0
     /\ cipherOut.by = cipherIn.by
     /\ cipherOut.room = cipherIn.room
     /\ cipherOut.key = cipherIn.key)
        => cipherOut.ok /\ cipherOut.text = cipherIn.text

\* C10: two managers never hold the same key for a room, and a replica that
\* has a room open shows the placeholder for every message another replica
\* encrypted
C10_ForeignCiphertextStaysClosed ==
    /\ \A r, q \in Replicas :
           r # q => \A roomId \in DOMAIN rep[r].roomKeys \cap DOMAIN rep[q].roomKeys :
                        rep[r].roomKeys[roomId] # rep[q].roomKeys[roomId]
    /\ \A r \in Replicas :
           (Mounted(r) /\ rep[r].selectedRoom # "")
               => \A m \in Range(rep[r].messages) :
                      (m.encrypted /\ EncryptedBy(m) # r)
                          => DisplayContent(rep[r], m).shown = "placeholder"

\* a replica that holds its own key for the open room and lists a message
\* another replica encrypted for that room
C10_Witness ==
    \E r \in Replicas :
        /\ Mounted(r)
        /\ rep[r].selectedRoom \in DOMAIN rep[r].roomKeys
        /\ \E m \in Range(rep[r].messages) : m.encrypted /\ EncryptedBy(m) # r

\* the session of replica r is backed by a temporary account: its user entry
\* in the durable snapshot carries the account flag and no registered account
\* has its nickname
TempSession(r) ==
    /\ Joined(r)
    /\ FindAccount(store.accounts, rep[r].currentUser) = <<>>
    /\ \E i \in DOMAIN store.users :
           /\ store.users[i].id = rep[r].currentUserId
           /\ store.users[i].hasAccount

\* C11: the page unload that ends a session backed by a temporary account
\* leaves a durable snapshot without the account and without its user, and
\* with every other user, the rooms, the message lists and the other accounts
\* as they were
C11_CleanupRemovesTemporaryUser ==
    [][\A r \in Replicas :
          (TempSession(r) /\ rep'[r].phase = "unloaded")
              => /\ store'.users = FilterOutId(store.users, rep[r].currentUserId)
                 /\ \A i \in DOMAIN store'.accounts : ~store'.accounts[i].isTemporary
                 /\ store'.accounts = store.accounts
                 /\ store'.rooms = store.rooms
                 /\ store'.messages = store.messages]_vars

\* C12: the account list of the durable snapshot never holds a temporary
\* account, whatever sessions were started, joined and ended
C12_NoTemporaryAccountStored ==
    \A i \in DOMAIN store.accounts : ~store.accounts[i].isTemporary

\* a temporary session is listed in the snapshot next to a registered
\* account saved by another replica
C12_Witness ==
    \E r \in Replicas :
        /\ TempSession(r)
        /\ store.accounts # <<>>
        /\ writer # r

\* C13: the user list of the durable snapshot never holds two entries with
\* the same nickname
C13_OneUserPerNickname ==
    \A i, j \in DOMAIN store.users :
        store.users[i].nickname = store.users[j].nickname => i = j

\* a guest has joined under a nickname that the snapshot already listed for
\* another replica's user, and the snapshot lists the newcomer
C13_Witness ==
    \E r, q \in Replicas :
        /\ r # q
        /\ Joined(r) /\ Joined(q)
        /\ rep[r].currentUser = rep[q].currentUser
        /\ \E i \in DOMAIN rep[q].onlineUsers :
               rep[q].onlineUsers[i].id = rep[q].currentUserId
        /\ \E i \in DOMAIN store.users :
               /\ store.users[i].id = rep[r].currentUserId
               /\ ~store.users[i].hasAccount

\* C14: a send by a replica whose manager holds no key for the open room is
\* rejected by encryptMessage and leaves the replica's message list, its
\* pending sends and the durable snapshot as they were
C14_SendWithoutKeyChangesNothing ==
    [][\A r \in Replicas :
          (cipherIn' # cipherIn /\ cipherIn'.by = r
                                /\ cipherIn'.room \notin DOMAIN rep[r].roomKeys)
              => /\ ~cipherIn'.ok
                 /\ rep'[r].messages = rep[r].messages
                 /\ rep'[r].tasks = rep[r].tasks
                 /\ store' = store
                 /\ storeRaw' = storeRaw]_vars

\* a send was rejected both while the key generation of the open room was
\* pending and after it had failed
C14_Witness ==
    \E r, q \in Replicas :
        /\ ~cipherIn.ok /\ cipherIn.by = r /\ cipherIn.room = rep[r].selectedRoom
        /\ rep[r].selectedRoom \notin DOMAIN rep[r].roomKeys
        /\ rep[r].tasks = <<>>
        /\ rep[r].messages = InitialMessages([NoTask EXCEPT
                                 !.roomName = SharedRoom.name,
                                 !.user = rep[r].currentUser])
        /\ q # r
        /\ \E i \in DOMAIN rep[q].tasks : rep[q].tasks[i].kind = "join"

\* decryptMessage throws for message in replica r: the manager has no key
\* for the open room, or the key it has is not the one the message was
\* sealed with
DecryptionFails(r, message) ==
    \/ rep[r].selectedRoom \notin DOMAIN rep[r].roomKeys
    \/ Atob(message.content).box.key # rep[r].roomKeys[rep[r].selectedRoom]

SaveInputs == {store, EmptyData, [store EXCEPT !.users = <<>>]}

\* C16: whatever the state of localStorage and of the channel, a saveData
\* call of a live replica returns with the replica's in-memory state as it
\* was; with setItem failing it leaves the record alone and publishes
\* nothing, without an open channel it writes the record and publishes
\* nothing
C16_SaveDataSwallowsFailures ==
    \A r \in Replicas :
        Mounted(r) =>
            \A data \in SaveInputs :
                LET w == SaveData(World(r), data) IN
                /\ w.s = rep[r]
                /\ ~storageUp => w.raw = storeRaw /\ w.store = store /\ w.out = <<>>
                /\ (storageUp /\ rep[r].channel # "open")
                       => /\ w.raw = "json"
                          /\ w.store = JsonParse(JsonStringify(data))
                          /\ w.out = <<>>

\* while setItem fails a replica has registered and shows itself joined
\* though no record was ever written, another replica runs without a
\* channel, and a third has closed its channel
C16_Witness ==
    /\ ~storageUp
    /\ storeRaw = "absent"
    /\ \E r, q, p \in Replicas :
           /\ Joined(r)
           /\ Mounted(q) /\ rep[q].channel = "none"
           /\ Mounted(p) /\ rep[p].channel = "closed"

\* C17: loadData answers null exactly when the record is missing or does
\* not parse, and a page load that finds such a record starts with no users
\* and no rooms and leaves the record as it found it
C17_UnreadableRecordIsAbsent ==
    /\ [](\A r \in Replicas :
             /\ storeRaw # "json" => LoadData(World(r)) = <<>> /\ ~Loaded(World(r))
             /\ storeRaw = "json" => LoadData(World(r)) = <<store>>)
    /\ [][\A r \in Replicas :
             (rep[r].phase = "unmounted" /\ rep'[r].phase = "mounted"
                                         /\ storeRaw # "json")
                 => /\ rep'[r].onlineUsers = <<>>
                    /\ rep'[r].chatRooms = <<>>
                    /\ storeRaw' = storeRaw
                    /\ store' = store]_vars

\* a replica has started on a damaged record that had listed a user, and
\* shows no user
C17_Witness ==
    /\ storeRaw = "corrupt"
    /\ store.users # <<>>
    /\ \E r \in Replicas :
           /\ Mounted(r)
           /\ ~rep[r].isJoined
           /\ rep[r].onlineUsers = <<>>
           /\ rep[r].chatRooms = <<>>

\* C18: a loadData that follows a saveData(S) with no save in between
\* returns a snapshot equal to S
C18_LoadReturnsWhatWasSaved ==
    loadOut.done => loadOut.result = saveIn

\* the publications of the replicas other than r
PublishedByOthers(r) ==
    LET sum[k \in 0..NumReplicas] ==
            IF k = 0 THEN 0 ELSE sum[k - 1] + (IF k = r THEN 0 ELSE pubs[k])
    IN sum[NumReplicas]

\* C19: a replica has handled and queued no more message events than the
\* others have published and runs one callback per event; a publishing step
\* queues nothing for the publisher and appends the same events, as many as
\* were published, behind what each subscriber had queued; a delivery takes
\* the oldest queued event and nothing else
C19_DeliveredOnceInOrderNotToSelf ==
    /\ [](\A r \in Replicas :
             /\ applied[r] + Len(inbox[r]) <= PublishedByOthers(r)
             /\ Len(rep[r].listeners) <= 1)
    /\ [][\A p \in Replicas :
             /\ pubs'[p] > pubs[p]
                    => /\ Len(inbox'[p]) <= Len(inbox[p])
                       /\ \A q \in Replicas \ {p} :
                              rep[q].channel = "open"
                                  => /\ Len(inbox'[q]) = Len(inbox[q]) + pubs'[p] - pubs[p]
                                     /\ SubSeq(inbox'[q], 1, Len(inbox[q])) = inbox[q]
                       /\ \A q, t \in Replicas \ {p} :
                              (rep[q].channel = "open" /\ rep[t].channel = "open")
                                  => SubSeq(inbox'[q], Len(inbox[q]) + 1, Len(inbox'[q]))
                                       = SubSeq(inbox'[t], Len(inbox[t]) + 1, Len(inbox'[t]))
             /\ applied'[p] # applied[p]
                    => /\ applied'[p] = applied[p] + 1
                       /\ inbox[p] # <<>>
                       /\ inbox'[p] = Tail(inbox[p])
                       /\ rep'[p].onlineUsers = Head(inbox[p]).users]_vars

\* a subscriber has handled the publications of two other replicas, every
\* one of them exactly once, while a publisher has handled none
C19_Witness ==
    \E r, p, q \in Replicas :
        /\ p # q /\ p # r /\ q # r
        /\ pubs[p] > 0 /\ pubs[q] > 0
        /\ applied[p] = 0
        /\ inbox[r] = <<>>
        /\ applied[r] = pubs[p] + pubs[q]

\* C20: once a replica's RealTimeSync is closed, no step of the replica
\* writes the durable snapshot, publishes, or leaves a callback registered
C20_ClosedSyncDoesNothing ==
    [][\A r \in Replicas :
          (Mounted(r) /\ rep[r].channel = "closed")
              => /\ ~Saved(r)
                 /\ pubs'[r] = pubs[r]
                 /\ rep'[r].listeners = <<>>]_vars

\* C21: a manager that holds a key pair keeps that pair through every later
\* call, and all texts its exportPublicKey calls returned are the same
C21_KeyPairIsKept ==
    /\ [](\A r \in Replicas :
             \A i, j \in DOMAIN exported[r] : exported[r][i] = exported[r][j])
    /\ [][\A r \in Replicas :
             rep[r].keyPair # NoKey => rep'[r].keyPair = rep[r].keyPair]_vars

\* a manager whose pair came from the page's initEncryption has exported its
\* key twice, and another manager has exported a different key
C21_Witness ==
    \E r, q \in Replicas :
        /\ Mounted(r) /\ rep[r].isEncryptionReady
        /\ Len(exported[r]) = 2
        /\ exported[q] # <<>>
        /\ exported[q][1] # exported[r][1]

\* the envelopes of a message list: position and decoded iv-and-box of every
\* encrypted message
Sealed(list) == {i \in DOMAIN list : list[i].encrypted}
SameKeySameText(a, b) ==
    /\ Atob(a.content).box.key = Atob(b.content).box.key
    /\ Atob(a.content).box.data = Atob(b.content).box.data

\* C22: two messages encrypted under the same room key never carry the same
\* nonce, so that the same text sent twice under one key gives two different
\* envelopes
C22_NonceIsNeverReused ==
    \A r \in Replicas : \A i, j \in Sealed(rep[r].messages) :
        LET a == rep[r].messages[i]
            b == rep[r].messages[j]
        IN (i # j /\ Atob(a.content).box.key = Atob(b.content).box.key)
               => /\ Atob(a.content).iv # Atob(b.content).iv
                  /\ a.content # b.content

C22_Witness ==
    \E r \in Replicas : \E i, j \in Sealed(rep[r].messages) :
        /\ i < j
        /\ SameKeySameText(rep[r].messages[i], rep[r].messages[j])
        /\ Atob(rep[r].messages[i].content).box.data = TextEncode(HelloText)

(***************************************************************************)
(* Start-up of the encryption, then joining and opening rooms              *)
(***************************************************************************)
\* the tabs are opened in the order of their numbers; the first one signs up
NextReady ==
    \E r \in Replicas :
        \/ (\A q \in 1..(r - 1) : Mounted(q)) /\ Mount(r, TRUE)
        \/ \E i \in 1..MaxTasks, ok \in BOOLEAN : InitEncryptionDone(r, i, ok)
        \/ r = 1 /\ JoinOpen /\ Signup(r, "a")
        \/ rep[r].selectedRoom = "" /\ CreateRoom(r)
        \/ \E i \in 1..MaxTasks, ok \in BOOLEAN : JoinRoomResume(r, i, ok)
        \/ Deliver(r)

\* the promise of generateKeyPair settles while the page stays open
SpecReady ==
    /\ Init /\ [][NextReady]_vars
    /\ \A r \in Replicas :
           WF_vars(\E i \in 1..MaxTasks, ok \in BOOLEAN : InitEncryptionDone(r, i, ok))

\* initEncryption ended in its catch: ready without an identity key pair
InitFailed(r) ==
    Mounted(r) /\ rep[r].isEncryptionReady /\ rep[r].keyPair = NoKey

\* C23: an opened page gets encryption-ready whether generateKeyPair resolves
\* or rejects.  A replica left without an identity key still signs up, joins
\* and saves its user, still creates a room and starts to open it, and still
\* takes over a snapshot it receives; a joinRoom whose generateRoomKey was
\* rejected still shows the room's first messages and saves them
C23_CryptoFailureBlocksNothing ==
    /\ \A r \in Replicas : Mounted(r) ~> rep[r].isEncryptionReady
    /\ [][\A r \in Replicas : InitFailed(r) =>
             /\ Signup(r, "a")
                    => /\ rep'[r].isJoined
                       /\ \E u \in Range(store'.users) : u.id = rep'[r].currentUserId
             /\ CreateRoom(r)
                    => /\ rep'[r].selectedRoom = ToString(now)
                       /\ \E i \in DOMAIN rep'[r].tasks :
                              /\ rep'[r].tasks[i].kind = "join"
                              /\ rep'[r].tasks[i].room = ToString(now)
             /\ Deliver(r)
                    => /\ rep'[r].onlineUsers = Head(inbox[r]).users
                       /\ rep'[r].chatRooms = Head(inbox[r]).rooms]_vars
    /\ [][\A r \in Replicas : \A i \in DOMAIN rep[r].tasks :
             JoinRoomResume(r, i, FALSE)
                 => /\ rep'[r].messages = InitialMessages(rep[r].tasks[i])
                    /\ rep[r].isJoined
                           => MessagesOf(store', rep'[r].selectedRoom)
                                  = rep'[r].messages]_vars

C23_Witness ==
    \E r, q \in Replicas :
        /\ InitFailed(r) /\ rep[r].isJoined
        /\ rep[r].selectedRoom # "" /\ rep[r].selectedRoom \notin DOMAIN rep[r].roomKeys
        /\ MessagesOf(store, rep[r].selectedRoom) = rep[r].messages
        /\ rep[r].messages # <<>>
        /\ InitFailed(q) /\ applied[q] > 0

\* the message events a step queued for replica q
Received(q) == SubSeq(inbox'[q], Len(inbox[q]) + 1, Len(inbox'[q]))

\* C24: a snapshot is posted only after the setItem of the same saveData call
\* has written it, the replicas receive the posted snapshots and no others,
\* and a task that runs while setItem throws posts nothing
C24_PublishedWasWritten ==
    /\ [](\A i \in DOMAIN posted :
             posted[i].written = <<JsonParse(JsonStringify(posted[i].data))>>)
    /\ [][/\ \A q \in Replicas :
                Len(inbox'[q]) > Len(inbox[q])
                    => Received(q) = [i \in DOMAIN posted' |-> posted'[i].data]
          /\ ~storageUp => /\ pubs' = pubs
                           /\ \A q \in Replicas : Len(inbox'[q]) <= Len(inbox[q])]_vars

C24_Witness ==
    \E r, q, p \in Replicas :
        /\ posted # <<>> /\ pubs[r] = Len(posted)
        /\ applied[q] > 0 /\ rep[q].onlineUsers = posted[1].data.users
        /\ rep[p].isJoined /\ rep[p].channel = "closed" /\ pubs[p] = 0

\* the values of the declared union ChatMessage.type
MessageTypes == {"user", "system"}

\* C25: every message in a replica's list and in every room's list of the
\* stored snapshot is of type "user" or "system"
C25_MessageTypeIsUserOrSystem ==
    /\ \A r \in Replicas : \A m \in Range(rep[r].messages) : m.type \in MessageTypes
    /\ \A roomId \in DOMAIN store.messages :
           \A m \in Range(store.messages[roomId]) : m.type \in MessageTypes

(***************************************************************************)
(* One sign-up, then only the tabs' event loops run                        *)
(***************************************************************************)
NextQuiet ==
    \E r \in Replicas :
        \/ \E chanOk \in BOOLEAN : Mount(r, chanOk)
        \/ JoinOpen /\ Signup(r, "a")
        \/ Deliver(r)

\* a queued message event is dispatched while the page stays open
SpecQuiet ==
    /\ Init /\ [][NextQuiet]_vars
    /\ \A r \in Replicas : WF_vars(Deliver(r))

\* C26: the task that applies a received snapshot writes no record and posts
\* nothing, a replica posts only in the task of the user's action by which it
\* joins, and in the end no message event is left undelivered
C26_NoFeedbackLoop ==
    /\ [][\A r \in Replicas :
             applied'[r] # applied[r]
                 => /\ pubs' = pubs
                    /\ <<storeRaw, store, writer>>' = <<storeRaw, store, writer>>]_vars
    /\ [][\A r \in Replicas :
             pubs'[r] # pubs[r] => ~rep[r].isJoined /\ rep'[r].isJoined]_vars
    /\ <>[](\A r \in Replicas : inbox[r] = <<>>)

C26_Witness ==
    \E r, q, p \in Replicas :
        /\ r # q /\ q # p /\ r # p
        /\ pubs[r] > 0
        /\ applied[q] = pubs[r] /\ applied[p] = pubs[r]
        /\ rep[q].onlineUsers = store.users /\ ~rep[q].isJoined
        /\ \A x \in Replicas : inbox[x] = <<>>

\* the ids of the messages stored under a room
StoredIds(data, roomId) == {m.id : m \in Range(MessagesOf(data, roomId))}

\* C27: when a joinRoom is completed, every message that was stored under
\* the room before the step is still stored under it after the step
C27_JoinKeepsStoredMessages ==
    [][\A r \in Replicas : \A i \in DOMAIN rep[r].tasks :
          (rep[r].tasks[i].kind = "join" /\ rep'[r].tasks = RemoveAt(rep[r].tasks, i))
              => StoredIds(store, rep[r].tasks[i].room)
                     \subseteq StoredIds(store', rep[r].tasks[i].room)]_vars

\* C28: while a session started with a temporary account lasts, the current
\* account of its replica is that temporary account
C28_TemporaryAccountStaysCurrent ==
    \A r \in Replicas :
        TempSession(r)
            => /\ rep[r].currentAccount # <<>>
               /\ rep[r].currentAccount[1].isTemporary
               /\ rep[r].currentAccount[1].nickname = rep[r].currentUser

(***************************************************************************)
(* The two users of the shared room create and open rooms while they send  *)
(***************************************************************************)
NextSwitch ==
    \E r \in Replicas :
        \/ CreateRoom(r)
        \/ \E i \in 1..MaxClock : RoomJoin(r, ToString(i))
        \/ \E i \in 1..MaxTasks : JoinRoomResume(r, i, TRUE)
        \/ SendMessage(r, HelloText)
        \/ \E i \in 1..MaxTasks : SendResume(r, i, TRUE)

SpecSwitch == InitShared /\ [][NextSwitch]_vars

\* the messages a step stores under a room that were not stored under it
\* before
NewUnder(roomId) ==
    Range(MessagesOf(store', roomId)) \ Range(MessagesOf(store, roomId))

\* C29: the step that completes a handleSendMessage or a joinRoom started
\* for room R stores no new message under another room, and puts its messages
\* into the replica's list only while R is the open room
C29_MessagesStayInTheirRoom ==
    [][\A r \in Replicas : \A i \in DOMAIN rep[r].tasks :
          (rep[r].tasks[i].kind \in {"send", "join"}
                  /\ rep'[r].tasks = RemoveAt(rep[r].tasks, i))
              => /\ \A roomId \in DOMAIN store'.messages :
                        roomId # rep[r].tasks[i].room => NewUnder(roomId) = {}
                 /\ rep'[r].selectedRoom # rep[r].tasks[i].room
                        => Range(rep'[r].messages) \subseteq Range(rep[r].messages)]_vars

(***************************************************************************)
(* Sends whose encryption resolves or rejects                              *)
(***************************************************************************)
NextDrop ==
    \E r \in Replicas :
        \/ \E i \in 1..MaxClock : RoomJoin(r, ToString(i))
        \/ \E i \in 1..MaxTasks : JoinRoomResume(r, i, TRUE)
        \/ SendMessage(r, HelloText)
        \/ SendNoKey(r, HelloText)
        \/ \E i \in 1..MaxTasks, ok \in BOOLEAN : SendResume(r, i, ok)

SpecDrop == InitShared /\ [][NextDrop]_vars

\* content is what encryptMessage returns: the base64 text of a nonce and of
\* the box sealed under a room key with that nonce
IsEnvelope(content) ==
    /\ DOMAIN content = {"b64"}
    /\ Atob(content).box.key # NoKey
    /\ Atob(content).box.iv = Atob(content).iv

\* the user messages of every replica's list and of every stored list
AllUserMessages ==
    UNION {UserMessages(rep[r].messages) : r \in Replicas}
        \cup UNION {UserMessages(store.messages[roomId]) : roomId \in DOMAIN store.messages}

\* C30: every user message listed or stored is marked encrypted and carries
\* an envelope; the step that ends a send appends the envelope of the typed
\* text or changes neither the replica's list nor the stored snapshot
C30_UserMessagesAreEncrypted ==
    /\ [](\A m \in AllUserMessages : m.encrypted /\ IsEnvelope(m.content))
    /\ [][\A r \in Replicas : \A i \in DOMAIN rep[r].tasks :
             (rep[r].tasks[i].kind = "send"
                     /\ rep'[r].tasks = RemoveAt(rep[r].tasks, i))
                 => \/ /\ Len(rep'[r].messages) = Len(rep[r].messages) + 1
                       /\ rep'[r].messages[Len(rep'[r].messages)].content
                              = EncryptWith(rep[r].tasks[i].key, rep[r].tasks[i].iv,
                                            rep[r].tasks[i].text)
                    \/ /\ rep'[r].messages = rep[r].messages
                       /\ store' = store]_vars

\* two encryptions were started and one message id was given out since user b
\* signed up: one send was encrypted, listed and stored, the other was
\* dropped; a third was rejected for want of a key
C30_Witness ==
    /\ nextIv = 3 /\ now = 5
    /\ \A r \in Replicas : rep[r].tasks = <<>>
    /\ \E r \in Replicas :
           /\ Cardinality(UserMessages(rep[r].messages)) = 1
           /\ UserMessages(MessagesOf(store, rep[r].selectedRoom))
                  = UserMessages(rep[r].messages)
    /\ ~cipherIn.ok /\ cipherIn.by # 0

====
